---- MODULE Spec2Model ----
(***************************************************************************)
(* Ordered parallel map over a fixed pool of worker threads                *)
(* (src/src/threaded.rs, src/src/stateful_threaded.rs) and the sequential  *)
(* adapters (src/src/interleave.rs, src/src/buffered.rs).                  *)
(*                                                                         *)
(* One orchestrator thread (the caller of new / next / drop) and N worker  *)
(* threads.  Every worker has a mailbox (sync_channel(1)) and a rendezvous *)
(* result channel (sync_channel(0)).  Worker and orchestrator steps        *)
(* interleave freely.                                                      *)
(***************************************************************************)
EXTENDS Integers, Sequences, FiniteSets, TLC

\* ---------------------------------------------------------------- bounds
\* Longest source, largest pool, most next calls a caller makes.
MaxLen == 3
MaxN == 2
MaxCalls == 4
\* Longest source of the runs checked for liveness.
FairMaxLen == 2
\* The same for the two variants run side by side.
PairMaxLen == 2
PairMaxCalls == 3
\* Longest input of interleave and most pulls made on it.
MaxList == 3
MaxPulls == 12
\* Largest capacity handed to buffered and most next calls made on it.
MaxCap == 3
BMaxCalls == 5

\* Option<T>: None, the end-marker, and Some(x).
None == <<>>
Some(x) == <<x>>
\* The input values the sources are built from.
Val == {1, 2}
OptVal == {None} \cup {Some(x) : x \in Val}

\* All sequences over S of length at most n.
SeqUpTo(S, n) == UNION {[1..m -> S] : m \in 0..n}

VARIABLES
    \* ---- stateless ThreadedIterator ----
    src,            \* what inner.next() returns, poll by poll; None ever after
    N,              \* available_parallelism().unwrap().get()
    panics,         \* the inputs on which func aborts (panics)
    pos,            \* number of polls of inner made so far
    nworkers,       \* workers.len()
    input_index,    \* self.input_index
    num_processing, \* self.num_processing
    opc,            \* where the orchestrator thread is
    caller,         \* which operation runs fill_buffer: "new" or "next"
    fillval,        \* fill_buffer's local val
    retval,         \* next's local val
    mailbox,        \* per worker: the buffer of its input channel (capacity 1)
    inOpen,         \* per worker: the orchestrator still holds the input SyncSender
    outOpen,        \* per worker: the orchestrator still holds the output Receiver
    wpc,            \* per worker: where its thread is
    witem,          \* per worker: the item or result it holds
    dropIdx,        \* the worker whose fields drop is releasing
    \* ---- history ----
    outputs,        \* what next has returned, in order
    calls,          \* number of next calls started
    invoked,        \* per worker: the poll indices func was invoked on, in order
    spawned,        \* number of thread::spawn calls made
    sent,           \* the items dispatched, in order
    \* ---- stateful ThreadedStatefulIterator: the same fields, and ----
    s_src, s_N, s_panics, s_pos, s_nworkers, s_input_index, s_num_processing,
    s_opc, s_caller, s_fillval, s_retval, s_mailbox, s_inOpen, s_outOpen, s_wpc,
    s_witem, s_dropIdx, s_outputs, s_calls, s_invoked, s_spawned, s_sent,
    s_init,         \* the state value handed to stateful_par_map
    s_mode,         \* which transformation is mapped: "cumsum" or "pure"
    s_state,        \* per worker: the state its thread owns
    \* ---- InterleaveIterator ----
    left,           \* the left input, a list
    right,          \* the right input, a list
    lpos,           \* elements of left consumed
    rpos,           \* elements of right consumed
    next_left,      \* self.next_left
    pulled,         \* history: what next has returned, in order
    \* ---- BufferedIterator ----
    b_src,          \* what inner.next() returns, poll by poll; None ever after
    b_cap,          \* self.max_capacity
    b_pos,          \* number of polls of inner made so far
    b_buffer,       \* self.buffer
    b_pc,           \* where the caller is inside next
    b_out,          \* history: what next has returned, in order
    b_calls,        \* history: number of next calls started
    b_fill0         \* history: the polls made before the current fill_buffer began

tvars == <<src, N, panics, pos, nworkers, input_index, num_processing, opc, caller,
           fillval, retval, mailbox, inOpen, outOpen, wpc, witem, dropIdx,
           outputs, calls, invoked, spawned, sent>>

svars == <<s_src, s_N, s_panics, s_pos, s_nworkers, s_input_index, s_num_processing,
           s_opc, s_caller, s_fillval, s_retval, s_mailbox, s_inOpen, s_outOpen,
           s_wpc, s_witem, s_dropIdx, s_outputs, s_calls, s_invoked, s_spawned,
           s_sent, s_init, s_mode, s_state>>

ivars == <<left, right, lpos, rpos, next_left, pulled>>

bvars == <<b_src, b_cap, b_pos, b_buffer, b_pc, b_out, b_calls, b_fill0>>

vars == <<tvars, svars, ivars, bvars>>

\* What the operations of one component leave alone: the other components.
notThreaded == <<svars, ivars, bvars>>
notStateful == <<tvars, ivars, bvars>>
notInterleave == <<tvars, svars, bvars>>
notBuffered == <<tvars, svars, ivars>>

Workers == 0..(N - 1)
\* A thread that has ended has dropped its Receiver and its SyncSender.
Gone == {"dead", "exited"}
\* An item or result in flight: the poll that produced it, its value, and (for
\* the history) the worker it was dispatched to or retrieved from and the
\* fill_buffer call that polled it: 0 for the one in new, m for the one in
\* the m-th next call.
NoItem == [k |-> 0, v |-> None, w |-> 0, c |-> 0]

\* square, the transformation of tests::test_iter.
func(x) == x * x

\* The inner iterator's next(): the poll-th answer of the source.
SourceAt(p) == IF p < Len(src) THEN src[p + 1] ELSE None

\* Mutant of fill_more: the loop test off by one (<= for <).
fill_more_le == num_processing <= nworkers

\* fill_buffer's loop test.
fill_more == num_processing < nworkers

\* Mutant of spawn_more: an inclusive range, one worker too many.
spawn_more_le == nworkers <= N

\* new: the range 0..available_parallelism() still has a worker to build.
spawn_more == nworkers < N

\* Mutant of output_index: the due worker off by one.
output_index_plus_one ==
    (2 * nworkers + input_index - num_processing + 1) % nworkers

\* ThreadedIterator::output_index
output_index == (2 * nworkers + input_index - num_processing) % nworkers

\* ---- the same for the stateful variant (src/src/stateful_threaded.rs) ----
s_Workers == 0..(s_N - 1)

\* cumsum of tests::test_iterator: state.total += x; state.total
cumsum(st, x) == [state |-> st + x, out |-> st + x]

\* A transformation that leaves its state as it found it (as
\* tests::arbitrary_vector_stuff does) and computes func(x).
pure_in_state(st, x) == [state |-> st, out |-> func(x)]

\* func(&mut state, x): the new state and the value returned.
stateful_func(mode, st, x) ==
    IF mode = "cumsum" THEN cumsum(st, x) ELSE pure_in_state(st, x)

s_SourceAt(p) == IF p < Len(s_src) THEN s_src[p + 1] ELSE None

\* fill_buffer's loop test.
s_fill_more == s_num_processing < s_nworkers

\* new: the range 0..available_parallelism() still has a worker to build.
s_spawn_more == s_nworkers < s_N

\* Mutant of s_output_index: the due worker off by one.
s_output_index_plus_one ==
    (2 * s_nworkers + s_input_index - s_num_processing + 1) % s_nworkers

\* ThreadedStatefulIterator::output_index
s_output_index ==
    (2 * s_nworkers + s_input_index - s_num_processing) % s_nworkers

\* ------------------------------------------------------------------- Init

\* A source that does not run out within the polls a run makes: it stands for
\* an infinite source.
EndlessSource == [i \in 1..(MaxN + MaxCalls) |-> Some(1)]

\* Before ThreadedIterator::new has built anything.
TInit ==
    /\ src \in SeqUpTo(OptVal, MaxLen) \cup {EndlessSource}
    /\ N \in 1..MaxN
    /\ panics \in {{}, {2}}
    /\ pos = 0
    /\ nworkers = 0
    /\ input_index = 0
    /\ num_processing = 0
    /\ opc = "new"
    /\ caller = "new"
    /\ fillval = NoItem
    /\ retval = NoItem
    /\ mailbox = [w \in Workers |-> <<>>]
    /\ inOpen = [w \in Workers |-> FALSE]
    /\ outOpen = [w \in Workers |-> FALSE]
    /\ wpc = [w \in Workers |-> "unborn"]
    /\ witem = [w \in Workers |-> NoItem]
    /\ dropIdx = 0
    /\ outputs = <<>>
    /\ calls = 0
    /\ invoked = [w \in Workers |-> <<>>]
    /\ spawned = 0
    /\ sent = <<>>

\* No stateless iterator in this run.
TOff ==
    /\ src = <<>>
    /\ N = 1
    /\ panics = {}
    /\ pos = 0
    /\ nworkers = 0
    /\ input_index = 0
    /\ num_processing = 0
    /\ opc = "off"
    /\ caller = "new"
    /\ fillval = NoItem
    /\ retval = NoItem
    /\ mailbox = [w \in Workers |-> <<>>]
    /\ inOpen = [w \in Workers |-> FALSE]
    /\ outOpen = [w \in Workers |-> FALSE]
    /\ wpc = [w \in Workers |-> "unborn"]
    /\ witem = [w \in Workers |-> NoItem]
    /\ dropIdx = 0
    /\ outputs = <<>>
    /\ calls = 0
    /\ invoked = [w \in Workers |-> <<>>]
    /\ spawned = 0
    /\ sent = <<>>

\* The source of the spec's state-isolation example: [1, 2, 3, 4].
ExampleSource == <<Some(1), Some(2), Some(3), Some(4)>>

\* What every stateful start has in common.
SInitRest ==
    /\ s_pos = 0
    /\ s_nworkers = 0
    /\ s_input_index = 0
    /\ s_num_processing = 0
    /\ s_caller = "new"
    /\ s_fillval = NoItem
    /\ s_retval = NoItem
    /\ s_mailbox = [w \in s_Workers |-> <<>>]
    /\ s_inOpen = [w \in s_Workers |-> FALSE]
    /\ s_outOpen = [w \in s_Workers |-> FALSE]
    /\ s_wpc = [w \in s_Workers |-> "unborn"]
    /\ s_witem = [w \in s_Workers |-> NoItem]
    /\ s_dropIdx = 0
    /\ s_outputs = <<>>
    /\ s_calls = 0
    /\ s_invoked = [w \in s_Workers |-> <<>>]
    /\ s_spawned = 0
    /\ s_sent = <<>>
    /\ s_state = [w \in s_Workers |-> 0]

\* Before ThreadedStatefulIterator::new has built anything.
SInit ==
    /\ s_src \in SeqUpTo(OptVal, MaxLen) \cup {ExampleSource}
    /\ s_N \in 1..MaxN
    /\ s_panics \in {{}, {2}}
    /\ s_init \in {0, 3}
    /\ s_mode \in {"cumsum", "pure"}
    /\ s_opc = "new"
    /\ SInitRest

\* No stateful iterator in this run.
SOff ==
    /\ s_src = <<>>
    /\ s_N = 1
    /\ s_panics = {}
    /\ s_init = 0
    /\ s_mode = "cumsum"
    /\ s_opc = "off"
    /\ SInitRest

\* The lists of interleave's tests.
TestLists == {<<1, 2, 3, 4, 5>>, <<6, 7, 8, 9, 10>>, <<1, 2, 3>>, <<6, 7, 8>>}

\* interleave(): left first.
IInit ==
    /\ left \in SeqUpTo(Val, MaxList) \cup TestLists
    /\ right \in SeqUpTo(Val, MaxList) \cup TestLists
    /\ lpos = 0
    /\ rpos = 0
    /\ next_left = TRUE
    /\ pulled = <<>>

\* No interleave in this run.
IOff ==
    /\ left = <<>>
    /\ right = <<>>
    /\ lpos = 0
    /\ rpos = 0
    /\ next_left = TRUE
    /\ pulled = <<>>

\* BufferedIterator::new: an empty buffer of the given capacity.
BInit ==
    /\ b_src \in SeqUpTo(OptVal, MaxLen)
    /\ b_cap \in 0..MaxCap
    /\ b_pos = 0
    /\ b_buffer = <<>>
    /\ b_pc = "idle"
    /\ b_out = <<>>
    /\ b_calls = 0
    /\ b_fill0 = 0

\* No buffered iterator in this run.
BOff ==
    /\ b_src = <<>>
    /\ b_cap = 0
    /\ b_pos = 0
    /\ b_buffer = <<>>
    /\ b_pc = "off"
    /\ b_out = <<>>
    /\ b_calls = 0
    /\ b_fill0 = 0

Init == TInit /\ SOff /\ IOff /\ BOff

FairInit == Init /\ Len(src) <= FairMaxLen

\* A transformation whose calls all return, on a short or an endless source.
FairTotalInit ==
    /\ Init
    /\ panics = {}
    /\ Len(src) <= FairMaxLen \/ src = EndlessSource

InitStateful == TOff /\ SInit /\ IOff /\ BOff

\* The stateful variant mapping the running sum from 0.
InitStatefulSum ==
    /\ InitStateful
    /\ s_mode = "cumsum"
    /\ s_init = 0
    /\ Len(s_src) <= MaxLen

\* Both variants over the same source and pool size, a total transformation.
InitPair ==
    /\ TInit
    /\ Len(src) <= PairMaxLen
    /\ \A i \in 1..Len(src) : src[i] # None
    /\ panics = {}
    /\ s_src = src
    /\ s_N = N
    /\ s_panics = {}
    /\ s_init = 0
    /\ s_mode \in {"cumsum", "pure"}
    /\ s_opc = "new"
    /\ SInitRest
    /\ IOff
    /\ BOff

InitInterleave == TOff /\ SOff /\ IInit /\ BOff

InitBuffered == TOff /\ SOff /\ IOff /\ BInit

\* ------------------------------------------------------------ orchestrator

\* Worker::new: the two channels and thread::spawn, once per pool slot.
Spawn ==
    /\ opc = "new"
    /\ spawn_more
    /\ wpc' = [wpc EXCEPT ![nworkers] = "recv"]
    /\ inOpen' = [inOpen EXCEPT ![nworkers] = TRUE]
    /\ outOpen' = [outOpen EXCEPT ![nworkers] = TRUE]
    /\ nworkers' = nworkers + 1
    /\ spawned' = spawned + 1
    /\ UNCHANGED notThreaded
    /\ UNCHANGED <<src, N, panics, pos, input_index, num_processing, opc, caller,
                   fillval, retval, mailbox, witem, dropIdx, outputs, calls,
                   invoked, sent>>

\* Mutant of NewStruct: new returns the struct without calling fill_buffer.
NewStruct_skips_fill ==
    /\ opc = "new"
    /\ ~spawn_more
    /\ input_index' = 0
    /\ num_processing' = 0
    /\ caller' = "new"
    /\ opc' = "idle"
    /\ UNCHANGED notThreaded
    /\ UNCHANGED <<src, N, panics, pos, nworkers, fillval, retval, mailbox, inOpen,
                   outOpen, wpc, witem, dropIdx, outputs, calls, invoked, spawned,
                   sent>>

\* ThreadedIterator::new: the struct is built and fill_buffer is entered.
NewStruct ==
    /\ opc = "new"
    /\ ~spawn_more
    /\ input_index' = 0
    /\ num_processing' = 0
    /\ caller' = "new"
    /\ opc' = "fill"
    /\ UNCHANGED notThreaded
    /\ UNCHANGED <<src, N, panics, pos, nworkers, fillval, retval, mailbox, inOpen,
                   outOpen, wpc, witem, dropIdx, outputs, calls, invoked, spawned,
                   sent>>

\* Mutant of FillPull: the source is fused, it is not polled again once it
\* has answered None.
FillPull_fused ==
    /\ opc = "fill"
    /\ fill_more
    /\ IF \E p \in 0..(pos - 1) : SourceAt(p) = None
       THEN /\ fillval' = [k |-> pos, v |-> None, w |-> input_index, c |-> calls]
            /\ pos' = pos
       ELSE /\ fillval' = [k |-> pos, v |-> SourceAt(pos), w |-> input_index,
                           c |-> calls]
            /\ pos' = pos + 1
    /\ opc' = "send"
    /\ UNCHANGED notThreaded
    /\ UNCHANGED <<src, N, panics, nworkers, input_index, num_processing, caller,
                   retval, mailbox, inOpen, outOpen, wpc, witem, dropIdx, outputs,
                   calls, invoked, spawned, sent>>

\* fill_buffer: the loop test holds and val = self.inner.next().
FillPull ==
    /\ opc = "fill"
    /\ fill_more
    /\ fillval' = [k |-> pos, v |-> SourceAt(pos), w |-> input_index, c |-> calls]
    /\ pos' = pos + 1
    /\ opc' = "send"
    /\ UNCHANGED notThreaded
    /\ UNCHANGED <<src, N, panics, nworkers, input_index, num_processing, caller,
                   retval, mailbox, inOpen, outOpen, wpc, witem, dropIdx, outputs,
                   calls, invoked, spawned, sent>>

\* Mutant of FillSend: input_index is advanced without wrapping around.
FillSend_no_wrap ==
    /\ opc = "send"
    /\ IF wpc[input_index] \in Gone
       THEN /\ opc' = "panicked"
            /\ UNCHANGED <<mailbox, input_index, num_processing, sent>>
       ELSE /\ Len(mailbox[input_index]) < 1
            /\ mailbox' = [mailbox EXCEPT ![input_index] = Append(@, fillval)]
            /\ sent' = Append(sent, fillval)
            /\ input_index' = input_index + 1
            /\ num_processing' = num_processing + 1
            /\ opc' = "fill"
    /\ UNCHANGED notThreaded
    /\ UNCHANGED <<src, N, panics, pos, nworkers, caller, fillval, retval, inOpen,
                   outOpen, wpc, witem, dropIdx, outputs, calls, invoked, spawned>>

\* Mutant of FillSend: input_index is not advanced.
FillSend_no_advance ==
    /\ opc = "send"
    /\ IF wpc[input_index] \in Gone
       THEN /\ opc' = "panicked"
            /\ UNCHANGED <<mailbox, num_processing, sent>>
       ELSE /\ Len(mailbox[input_index]) < 1
            /\ mailbox' = [mailbox EXCEPT ![input_index] = Append(@, fillval)]
            /\ sent' = Append(sent, fillval)
            /\ num_processing' = num_processing + 1
            /\ opc' = "fill"
    /\ UNCHANGED notThreaded
    /\ UNCHANGED <<src, N, panics, pos, nworkers, input_index, caller, fillval,
                   retval, inOpen, outOpen, wpc, witem, dropIdx, outputs, calls,
                   invoked, spawned>>

\* fill_buffer: workers[input_index].input.send(val).unwrap() and the two
\* counter updates.  The send blocks while the mailbox is full and fails
\* (unwrap panics) when the worker's thread has ended.
FillSend ==
    /\ opc = "send"
    /\ IF wpc[input_index] \in Gone
       THEN /\ opc' = "panicked"
            /\ UNCHANGED <<mailbox, input_index, num_processing, sent>>
       ELSE /\ Len(mailbox[input_index]) < 1
            /\ mailbox' = [mailbox EXCEPT ![input_index] = Append(@, fillval)]
            /\ sent' = Append(sent, fillval)
            /\ input_index' = (input_index + 1) % nworkers
            /\ num_processing' = num_processing + 1
            /\ opc' = "fill"
    /\ UNCHANGED notThreaded
    /\ UNCHANGED <<src, N, panics, pos, nworkers, caller, fillval, retval, inOpen,
                   outOpen, wpc, witem, dropIdx, outputs, calls, invoked, spawned>>

\* fill_buffer returns; new returns the iterator, next returns val.
FillDone ==
    /\ opc = "fill"
    /\ ~fill_more
    /\ opc' = "idle"
    /\ outputs' = IF caller = "next" THEN Append(outputs, retval) ELSE outputs
    /\ UNCHANGED notThreaded
    /\ UNCHANGED <<src, N, panics, pos, nworkers, input_index, num_processing,
                   caller, fillval, retval, mailbox, inOpen, outOpen, wpc, witem,
                   dropIdx, calls, invoked, spawned, sent>>

\* The caller calls next(), also after a call that panicked (catch_unwind).
CallNext ==
    /\ opc \in {"idle", "panicked"}
    /\ calls < MaxCalls
    /\ calls' = calls + 1
    /\ caller' = "next"
    /\ opc' = "recv"
    /\ UNCHANGED notThreaded
    /\ UNCHANGED <<src, N, panics, pos, nworkers, input_index, num_processing,
                   fillval, retval, mailbox, inOpen, outOpen, wpc, witem, dropIdx,
                   outputs, invoked, spawned, sent>>

\* Mutant of OrchRecv: the decrement of num_processing is forgotten.
OrchRecv_no_decrement ==
    /\ opc = "recv"
    /\ IF wpc[output_index] = "send"
       THEN /\ retval' = [witem[output_index] EXCEPT !.w = output_index]
            /\ wpc' = [wpc EXCEPT ![output_index] = "recv"]
            /\ opc' = "fill"
       ELSE /\ wpc[output_index] \in Gone
            /\ opc' = "panicked"
            /\ UNCHANGED <<retval, wpc>>
    /\ UNCHANGED notThreaded
    /\ UNCHANGED <<src, N, panics, pos, nworkers, input_index, num_processing,
                   caller, fillval, mailbox, inOpen, outOpen, witem, dropIdx,
                   outputs, calls, invoked, spawned, sent>>

\* Mutant of OrchRecv: a failed recv is taken for the end of the sequence
\* (unwrap_or(None) for unwrap).
OrchRecv_swallows_disconnect ==
    /\ opc = "recv"
    /\ IF wpc[output_index] = "send"
       THEN /\ retval' = [witem[output_index] EXCEPT !.w = output_index]
            /\ wpc' = [wpc EXCEPT ![output_index] = "recv"]
       ELSE /\ wpc[output_index] \in Gone
            /\ retval' = [witem[output_index] EXCEPT !.v = None, !.w = output_index]
            /\ UNCHANGED wpc
    /\ num_processing' = num_processing - 1
    /\ opc' = "fill"
    /\ UNCHANGED notThreaded
    /\ UNCHANGED <<src, N, panics, pos, nworkers, input_index, caller, fillval,
                   mailbox, inOpen, outOpen, witem, dropIdx, outputs, calls,
                   invoked, spawned, sent>>

\* next: workers[output_index()].output.recv().unwrap() and the decrement.
\* The rendezvous completes the worker's send; recv fails (unwrap panics)
\* when the worker's thread has ended; otherwise it blocks.
OrchRecv ==
    /\ opc = "recv"
    /\ IF wpc[output_index] = "send"
       THEN /\ retval' = [witem[output_index] EXCEPT !.w = output_index]
            /\ wpc' = [wpc EXCEPT ![output_index] = "recv"]
            /\ num_processing' = num_processing - 1
            /\ opc' = "fill"
       ELSE /\ wpc[output_index] \in Gone
            /\ opc' = "panicked"
            /\ UNCHANGED <<retval, wpc, num_processing>>
    /\ UNCHANGED notThreaded
    /\ UNCHANGED <<src, N, panics, pos, nworkers, input_index, caller, fillval,
                   mailbox, inOpen, outOpen, witem, dropIdx, outputs, calls,
                   invoked, spawned, sent>>

\* The caller drops the iterator (or unwinding drops it after a panic): the
\* Vec of workers is dropped element by element, each Worker field by field.
DropStart ==
    /\ opc \in {"idle", "panicked"}
    /\ dropIdx' = 0
    /\ opc' = "drop_input"
    /\ UNCHANGED notThreaded
    /\ UNCHANGED <<src, N, panics, pos, nworkers, input_index, num_processing,
                   caller, fillval, retval, mailbox, inOpen, outOpen, wpc, witem,
                   outputs, calls, invoked, spawned, sent>>

\* Mutant of DropInput: the SyncSender outlives the iterator (a leaked clone).
DropInput_keeps_sender ==
    /\ opc = "drop_input"
    /\ opc' = "drop_output"
    /\ UNCHANGED notThreaded
    /\ UNCHANGED <<src, N, panics, pos, nworkers, input_index, num_processing,
                   caller, fillval, retval, mailbox, inOpen, outOpen, wpc, witem,
                   dropIdx, outputs, calls, invoked, spawned, sent>>

\* Worker.input (the SyncSender) is dropped; a buffered item stays receivable.
DropInput ==
    /\ opc = "drop_input"
    /\ inOpen' = [inOpen EXCEPT ![dropIdx] = FALSE]
    /\ opc' = "drop_output"
    /\ UNCHANGED notThreaded
    /\ UNCHANGED <<src, N, panics, pos, nworkers, input_index, num_processing,
                   caller, fillval, retval, mailbox, outOpen, wpc, witem, dropIdx,
                   outputs, calls, invoked, spawned, sent>>

\* Worker.output (the Receiver) is dropped; no join on _handle.
DropOutput ==
    /\ opc = "drop_output"
    /\ outOpen' = [outOpen EXCEPT ![dropIdx] = FALSE]
    /\ dropIdx' = dropIdx + 1
    /\ opc' = IF dropIdx + 1 < nworkers THEN "drop_input" ELSE "dropped"
    /\ UNCHANGED notThreaded
    /\ UNCHANGED <<src, N, panics, pos, nworkers, input_index, num_processing,
                   caller, fillval, retval, mailbox, inOpen, wpc, witem, outputs,
                   calls, invoked, spawned, sent>>

\* ------------------------------------------------------------------ worker

\* Mutant of WorkerRecv: a closed channel ends the loop before the buffered
\* item is received.
WorkerRecv_closure_first(w) ==
    /\ wpc[w] = "recv"
    /\ IF ~inOpen[w]
       THEN /\ wpc' = [wpc EXCEPT ![w] = "exited"]
            /\ UNCHANGED <<witem, mailbox>>
       ELSE /\ mailbox[w] # <<>>
            /\ witem' = [witem EXCEPT ![w] = Head(mailbox[w])]
            /\ mailbox' = [mailbox EXCEPT ![w] = Tail(@)]
            /\ wpc' = [wpc EXCEPT ![w] = "compute"]
    /\ UNCHANGED notThreaded
    /\ UNCHANGED <<src, N, panics, pos, nworkers, input_index, num_processing, opc,
                   caller, fillval, retval, inOpen, outOpen, dropIdx, outputs,
                   calls, invoked, spawned, sent>>

\* for item in input_receiver: a buffered item is received, also after the
\* sender was dropped; with the buffer empty and the sender dropped the loop
\* ends and the thread exits; otherwise the thread blocks.
WorkerRecv(w) ==
    /\ wpc[w] = "recv"
    /\ IF mailbox[w] # <<>>
       THEN /\ witem' = [witem EXCEPT ![w] = Head(mailbox[w])]
            /\ mailbox' = [mailbox EXCEPT ![w] = Tail(@)]
            /\ wpc' = [wpc EXCEPT ![w] = "compute"]
       ELSE /\ ~inOpen[w]
            /\ wpc' = [wpc EXCEPT ![w] = "exited"]
            /\ UNCHANGED <<witem, mailbox>>
    /\ UNCHANGED notThreaded
    /\ UNCHANGED <<src, N, panics, pos, nworkers, input_index, num_processing, opc,
                   caller, fillval, retval, inOpen, outOpen, dropIdx, outputs,
                   calls, invoked, spawned, sent>>

\* Mutant of WorkerCompute: an end-marker is swallowed, no result is handed
\* off for it.
WorkerCompute_drops_none(w) ==
    /\ wpc[w] = "compute"
    /\ IF witem[w].v = None
       THEN /\ wpc' = [wpc EXCEPT ![w] = "recv"]
            /\ UNCHANGED <<witem, invoked, mailbox>>
       ELSE /\ invoked' = [invoked EXCEPT ![w] = Append(@, witem[w].k)]
            /\ IF witem[w].v[1] \in panics
               THEN /\ wpc' = [wpc EXCEPT ![w] = "dead"]
                    /\ mailbox' = [mailbox EXCEPT ![w] = <<>>]
                    /\ UNCHANGED witem
               ELSE /\ wpc' = [wpc EXCEPT ![w] = "send"]
                    /\ witem' = [witem EXCEPT ![w] = [@ EXCEPT !.v = Some(func(@[1]))]]
                    /\ UNCHANGED mailbox
    /\ UNCHANGED notThreaded
    /\ UNCHANGED <<src, N, panics, pos, nworkers, input_index, num_processing, opc,
                   caller, fillval, retval, inOpen, outOpen, dropIdx, outputs,
                   calls, spawned, sent>>

\* Mutant of WorkerCompute: an abort of func is caught and an end-marker is
\* handed back for the item.
WorkerCompute_catches_panic(w) ==
    /\ wpc[w] = "compute"
    /\ IF witem[w].v = None
       THEN /\ wpc' = [wpc EXCEPT ![w] = "send"]
            /\ UNCHANGED <<witem, invoked, mailbox>>
       ELSE /\ invoked' = [invoked EXCEPT ![w] = Append(@, witem[w].k)]
            /\ wpc' = [wpc EXCEPT ![w] = "send"]
            /\ witem' = [witem EXCEPT ![w] =
                   [@ EXCEPT !.v = IF @[1] \in panics THEN None ELSE Some(func(@[1]))]]
            /\ UNCHANGED mailbox
    /\ UNCHANGED notThreaded
    /\ UNCHANGED <<src, N, panics, pos, nworkers, input_index, num_processing, opc,
                   caller, fillval, retval, inOpen, outOpen, dropIdx, outputs,
                   calls, spawned, sent>>

\* Mutant of WorkerCompute: func is applied to every item, an end-marker
\* standing for the default value (func(item.unwrap_or_default())).
WorkerCompute_maps_none(w) ==
    /\ wpc[w] = "compute"
    /\ invoked' = [invoked EXCEPT ![w] = Append(@, witem[w].k)]
    /\ wpc' = [wpc EXCEPT ![w] = "send"]
    /\ witem' = [witem EXCEPT ![w] =
           [@ EXCEPT !.v = Some(func(IF @ = None THEN 0 ELSE @[1]))]]
    /\ UNCHANGED notThreaded
    /\ UNCHANGED <<src, N, panics, pos, nworkers, input_index, num_processing, opc,
                   caller, fillval, retval, mailbox, inOpen, outOpen, dropIdx,
                   outputs, calls, spawned, sent>>

\* item.map(&func): None passes through, Some(x) becomes Some(func(x)); a
\* panic of func ends the thread.
WorkerCompute(w) ==
    /\ wpc[w] = "compute"
    /\ IF witem[w].v = None
       THEN /\ wpc' = [wpc EXCEPT ![w] = "send"]
            /\ UNCHANGED <<witem, invoked, mailbox>>
       ELSE /\ invoked' = [invoked EXCEPT ![w] = Append(@, witem[w].k)]
            /\ IF witem[w].v[1] \in panics
               THEN /\ wpc' = [wpc EXCEPT ![w] = "dead"]
                    /\ mailbox' = [mailbox EXCEPT ![w] = <<>>]
                    /\ UNCHANGED witem
               ELSE /\ wpc' = [wpc EXCEPT ![w] = "send"]
                    /\ witem' = [witem EXCEPT ![w] = [@ EXCEPT !.v = Some(func(@[1]))]]
                    /\ UNCHANGED mailbox
    /\ UNCHANGED notThreaded
    /\ UNCHANGED <<src, N, panics, pos, nworkers, input_index, num_processing, opc,
                   caller, fillval, retval, inOpen, outOpen, dropIdx, outputs,
                   calls, spawned, sent>>

\* output_sender.send(..).is_err(): the Receiver is gone, break.
WorkerSendErr(w) ==
    /\ wpc[w] = "send"
    /\ ~outOpen[w]
    /\ wpc' = [wpc EXCEPT ![w] = "exited"]
    /\ UNCHANGED notThreaded
    /\ UNCHANGED <<src, N, panics, pos, nworkers, input_index, num_processing, opc,
                   caller, fillval, retval, mailbox, inOpen, outOpen, witem,
                   dropIdx, outputs, calls, invoked, spawned, sent>>

\* ------------------------------------------- stateful variant: orchestrator

\* StatefulWorker::new(func, state.clone()): the two channels and thread::spawn,
\* once per pool slot; the thread owns its clone of the initial state.
SSpawn ==
    /\ s_opc = "new"
    /\ s_spawn_more
    /\ s_wpc' = [s_wpc EXCEPT ![s_nworkers] = "recv"]
    /\ s_inOpen' = [s_inOpen EXCEPT ![s_nworkers] = TRUE]
    /\ s_outOpen' = [s_outOpen EXCEPT ![s_nworkers] = TRUE]
    /\ s_nworkers' = s_nworkers + 1
    /\ s_spawned' = s_spawned + 1
    /\ s_state' = [s_state EXCEPT ![s_nworkers] = s_init]
    /\ UNCHANGED notStateful
    /\ UNCHANGED <<s_init, s_mode>>
    /\ UNCHANGED <<s_src, s_N, s_panics, s_pos, s_input_index, s_num_processing,
                   s_opc, s_caller, s_fillval, s_retval, s_mailbox, s_witem,
                   s_dropIdx, s_outputs, s_calls, s_invoked, s_sent>>

\* ThreadedStatefulIterator::new: the struct is built and fill_buffer is entered.
SNewStruct ==
    /\ s_opc = "new"
    /\ ~s_spawn_more
    /\ s_input_index' = 0
    /\ s_num_processing' = 0
    /\ s_caller' = "new"
    /\ s_opc' = "fill"
    /\ UNCHANGED notStateful
    /\ UNCHANGED <<s_init, s_mode, s_state>>
    /\ UNCHANGED <<s_src, s_N, s_panics, s_pos, s_nworkers, s_fillval, s_retval,
                   s_mailbox, s_inOpen, s_outOpen, s_wpc, s_witem, s_dropIdx,
                   s_outputs, s_calls, s_invoked, s_spawned, s_sent>>

\* fill_buffer: the loop test holds and val = self.inner.next().
SFillPull ==
    /\ s_opc = "fill"
    /\ s_fill_more
    /\ s_fillval' = [k |-> s_pos, v |-> s_SourceAt(s_pos), w |-> s_input_index,
                     c |-> s_calls]
    /\ s_pos' = s_pos + 1
    /\ s_opc' = "send"
    /\ UNCHANGED notStateful
    /\ UNCHANGED <<s_init, s_mode, s_state>>
    /\ UNCHANGED <<s_src, s_N, s_panics, s_nworkers, s_input_index,
                   s_num_processing, s_caller, s_retval, s_mailbox, s_inOpen,
                   s_outOpen, s_wpc, s_witem, s_dropIdx, s_outputs, s_calls,
                   s_invoked, s_spawned, s_sent>>

\* fill_buffer: workers[input_index].input.send(val).unwrap() and the two
\* counter updates.  The send blocks while the mailbox is full and fails
\* (unwrap panics) when the worker's thread has ended.
SFillSend ==
    /\ s_opc = "send"
    /\ IF s_wpc[s_input_index] \in Gone
       THEN /\ s_opc' = "panicked"
            /\ UNCHANGED <<s_mailbox, s_input_index, s_num_processing, s_sent>>
       ELSE /\ Len(s_mailbox[s_input_index]) < 1
            /\ s_mailbox' = [s_mailbox EXCEPT ![s_input_index] = Append(@, s_fillval)]
            /\ s_sent' = Append(s_sent, s_fillval)
            /\ s_input_index' = (s_input_index + 1) % s_nworkers
            /\ s_num_processing' = s_num_processing + 1
            /\ s_opc' = "fill"
    /\ UNCHANGED notStateful
    /\ UNCHANGED <<s_init, s_mode, s_state>>
    /\ UNCHANGED <<s_src, s_N, s_panics, s_pos, s_nworkers, s_caller, s_fillval,
                   s_retval, s_inOpen, s_outOpen, s_wpc, s_witem, s_dropIdx,
                   s_outputs, s_calls, s_invoked, s_spawned>>

\* fill_buffer returns; new returns the iterator, next returns val.
SFillDone ==
    /\ s_opc = "fill"
    /\ ~s_fill_more
    /\ s_opc' = "idle"
    /\ s_outputs' = IF s_caller = "next" THEN Append(s_outputs, s_retval) ELSE s_outputs
    /\ UNCHANGED notStateful
    /\ UNCHANGED <<s_init, s_mode, s_state>>
    /\ UNCHANGED <<s_src, s_N, s_panics, s_pos, s_nworkers, s_input_index,
                   s_num_processing, s_caller, s_fillval, s_retval, s_mailbox,
                   s_inOpen, s_outOpen, s_wpc, s_witem, s_dropIdx, s_calls,
                   s_invoked, s_spawned, s_sent>>

\* The caller calls next(), also after a call that panicked (catch_unwind).
SCallNext ==
    /\ s_opc \in {"idle", "panicked"}
    /\ s_calls < MaxCalls
    /\ s_calls' = s_calls + 1
    /\ s_caller' = "next"
    /\ s_opc' = "recv"
    /\ UNCHANGED notStateful
    /\ UNCHANGED <<s_init, s_mode, s_state>>
    /\ UNCHANGED <<s_src, s_N, s_panics, s_pos, s_nworkers, s_input_index,
                   s_num_processing, s_fillval, s_retval, s_mailbox, s_inOpen,
                   s_outOpen, s_wpc, s_witem, s_dropIdx, s_outputs, s_invoked,
                   s_spawned, s_sent>>

\* next: workers[output_index()].output.recv().unwrap() and the decrement.
\* The rendezvous completes the worker's send; recv fails (unwrap panics)
\* when the worker's thread has ended; otherwise it blocks.
SOrchRecv ==
    /\ s_opc = "recv"
    /\ IF s_wpc[s_output_index] = "send"
       THEN /\ s_retval' = [s_witem[s_output_index] EXCEPT !.w = s_output_index]
            /\ s_wpc' = [s_wpc EXCEPT ![s_output_index] = "recv"]
            /\ s_num_processing' = s_num_processing - 1
            /\ s_opc' = "fill"
       ELSE /\ s_wpc[s_output_index] \in Gone
            /\ s_opc' = "panicked"
            /\ UNCHANGED <<s_retval, s_wpc, s_num_processing>>
    /\ UNCHANGED notStateful
    /\ UNCHANGED <<s_init, s_mode, s_state>>
    /\ UNCHANGED <<s_src, s_N, s_panics, s_pos, s_nworkers, s_input_index,
                   s_caller, s_fillval, s_mailbox, s_inOpen, s_outOpen, s_witem,
                   s_dropIdx, s_outputs, s_calls, s_invoked, s_spawned, s_sent>>

\* The caller drops the iterator (or unwinding drops it after a panic): the
\* Vec of workers is dropped element by element, each Worker field by field.
SDropStart ==
    /\ s_opc \in {"idle", "panicked"}
    /\ s_dropIdx' = 0
    /\ s_opc' = "drop_input"
    /\ UNCHANGED notStateful
    /\ UNCHANGED <<s_init, s_mode, s_state>>
    /\ UNCHANGED <<s_src, s_N, s_panics, s_pos, s_nworkers, s_input_index,
                   s_num_processing, s_caller, s_fillval, s_retval, s_mailbox,
                   s_inOpen, s_outOpen, s_wpc, s_witem, s_outputs, s_calls,
                   s_invoked, s_spawned, s_sent>>

\* Worker.input (the SyncSender) is dropped; a buffered item stays receivable.
SDropInput ==
    /\ s_opc = "drop_input"
    /\ s_inOpen' = [s_inOpen EXCEPT ![s_dropIdx] = FALSE]
    /\ s_opc' = "drop_output"
    /\ UNCHANGED notStateful
    /\ UNCHANGED <<s_init, s_mode, s_state>>
    /\ UNCHANGED <<s_src, s_N, s_panics, s_pos, s_nworkers, s_input_index,
                   s_num_processing, s_caller, s_fillval, s_retval, s_mailbox,
                   s_outOpen, s_wpc, s_witem, s_dropIdx, s_outputs, s_calls,
                   s_invoked, s_spawned, s_sent>>

\* Worker.output (the Receiver) is dropped; no join on _handle.
SDropOutput ==
    /\ s_opc = "drop_output"
    /\ s_outOpen' = [s_outOpen EXCEPT ![s_dropIdx] = FALSE]
    /\ s_dropIdx' = s_dropIdx + 1
    /\ s_opc' = IF s_dropIdx + 1 < s_nworkers THEN "drop_input" ELSE "dropped"
    /\ UNCHANGED notStateful
    /\ UNCHANGED <<s_init, s_mode, s_state>>
    /\ UNCHANGED <<s_src, s_N, s_panics, s_pos, s_nworkers, s_input_index,
                   s_num_processing, s_caller, s_fillval, s_retval, s_mailbox,
                   s_inOpen, s_wpc, s_witem, s_outputs, s_calls, s_invoked,
                   s_spawned, s_sent>>

\* ------------------------------------------------- stateful variant: worker

\* for item in input_receiver: a buffered item is received, also after the
\* sender was dropped; with the buffer empty and the sender dropped the loop
\* ends and the thread exits; otherwise the thread blocks.
SWorkerRecv(w) ==
    /\ s_wpc[w] = "recv"
    /\ IF s_mailbox[w] # <<>>
       THEN /\ s_witem' = [s_witem EXCEPT ![w] = Head(s_mailbox[w])]
            /\ s_mailbox' = [s_mailbox EXCEPT ![w] = Tail(@)]
            /\ s_wpc' = [s_wpc EXCEPT ![w] = "compute"]
       ELSE /\ ~s_inOpen[w]
            /\ s_wpc' = [s_wpc EXCEPT ![w] = "exited"]
            /\ UNCHANGED <<s_witem, s_mailbox>>
    /\ UNCHANGED notStateful
    /\ UNCHANGED <<s_init, s_mode, s_state>>
    /\ UNCHANGED <<s_src, s_N, s_panics, s_pos, s_nworkers, s_input_index,
                   s_num_processing, s_opc, s_caller, s_fillval, s_retval,
                   s_inOpen, s_outOpen, s_dropIdx, s_outputs, s_calls, s_invoked,
                   s_spawned, s_sent>>

\* Mutant of SWorkerCompute: an end-marker resets the worker's state to the
\* initial state.
SWorkerCompute_none_resets_state(w) ==
    /\ s_wpc[w] = "compute"
    /\ IF s_witem[w].v = None
       THEN /\ s_wpc' = [s_wpc EXCEPT ![w] = "send"]
            /\ s_state' = [s_state EXCEPT ![w] = s_init]
            /\ UNCHANGED <<s_witem, s_invoked, s_mailbox>>
       ELSE /\ s_invoked' = [s_invoked EXCEPT ![w] = Append(@, s_witem[w].k)]
            /\ IF s_witem[w].v[1] \in s_panics
               THEN /\ s_wpc' = [s_wpc EXCEPT ![w] = "dead"]
                    /\ s_mailbox' = [s_mailbox EXCEPT ![w] = <<>>]
                    /\ UNCHANGED <<s_witem, s_state>>
               ELSE /\ s_wpc' = [s_wpc EXCEPT ![w] = "send"]
                    /\ s_witem' = [s_witem EXCEPT ![w] =
                           [@ EXCEPT !.v =
                               Some(stateful_func(s_mode, s_state[w], @[1]).out)]]
                    /\ s_state' = [s_state EXCEPT ![w] =
                           stateful_func(s_mode, @, s_witem[w].v[1]).state]
                    /\ UNCHANGED s_mailbox
    /\ UNCHANGED notStateful
    /\ UNCHANGED <<s_init, s_mode>>
    /\ UNCHANGED <<s_src, s_N, s_panics, s_pos, s_nworkers, s_input_index,
                   s_num_processing, s_opc, s_caller, s_fillval, s_retval,
                   s_inOpen, s_outOpen, s_dropIdx, s_outputs, s_calls, s_spawned,
                   s_sent>>

\* Mutant of SWorkerCompute: one state shared by all workers (worker 0's)
\* instead of a clone per worker.
SWorkerCompute_shared_state(w) ==
    /\ s_wpc[w] = "compute"
    /\ IF s_witem[w].v = None
       THEN /\ s_wpc' = [s_wpc EXCEPT ![w] = "send"]
            /\ UNCHANGED <<s_witem, s_invoked, s_mailbox, s_state>>
       ELSE /\ s_invoked' = [s_invoked EXCEPT ![w] = Append(@, s_witem[w].k)]
            /\ IF s_witem[w].v[1] \in s_panics
               THEN /\ s_wpc' = [s_wpc EXCEPT ![w] = "dead"]
                    /\ s_mailbox' = [s_mailbox EXCEPT ![w] = <<>>]
                    /\ UNCHANGED <<s_witem, s_state>>
               ELSE /\ s_wpc' = [s_wpc EXCEPT ![w] = "send"]
                    /\ s_witem' = [s_witem EXCEPT ![w] =
                           [@ EXCEPT !.v =
                               Some(stateful_func(s_mode, s_state[0], @[1]).out)]]
                    /\ s_state' = [s_state EXCEPT ![0] =
                           stateful_func(s_mode, @, s_witem[w].v[1]).state]
                    /\ UNCHANGED s_mailbox
    /\ UNCHANGED notStateful
    /\ UNCHANGED <<s_init, s_mode>>
    /\ UNCHANGED <<s_src, s_N, s_panics, s_pos, s_nworkers, s_input_index,
                   s_num_processing, s_opc, s_caller, s_fillval, s_retval,
                   s_inOpen, s_outOpen, s_dropIdx, s_outputs, s_calls, s_spawned,
                   s_sent>>

\* item.map(|x| func(&mut state, x)): None passes through and leaves the state
\* alone, Some(x) becomes Some(func(&mut state, x)); a panic ends the thread.
SWorkerCompute(w) ==
    /\ s_wpc[w] = "compute"
    /\ IF s_witem[w].v = None
       THEN /\ s_wpc' = [s_wpc EXCEPT ![w] = "send"]
            /\ UNCHANGED <<s_witem, s_invoked, s_mailbox, s_state>>
       ELSE /\ s_invoked' = [s_invoked EXCEPT ![w] = Append(@, s_witem[w].k)]
            /\ IF s_witem[w].v[1] \in s_panics
               THEN /\ s_wpc' = [s_wpc EXCEPT ![w] = "dead"]
                    /\ s_mailbox' = [s_mailbox EXCEPT ![w] = <<>>]
                    /\ UNCHANGED <<s_witem, s_state>>
               ELSE /\ s_wpc' = [s_wpc EXCEPT ![w] = "send"]
                    /\ s_witem' = [s_witem EXCEPT ![w] =
                           [@ EXCEPT !.v =
                               Some(stateful_func(s_mode, s_state[w], @[1]).out)]]
                    /\ s_state' = [s_state EXCEPT ![w] =
                           stateful_func(s_mode, @, s_witem[w].v[1]).state]
                    /\ UNCHANGED s_mailbox
    /\ UNCHANGED notStateful
    /\ UNCHANGED <<s_init, s_mode>>
    /\ UNCHANGED <<s_src, s_N, s_panics, s_pos, s_nworkers, s_input_index,
                   s_num_processing, s_opc, s_caller, s_fillval, s_retval,
                   s_inOpen, s_outOpen, s_dropIdx, s_outputs, s_calls, s_spawned,
                   s_sent>>

\* output_sender.send(..).is_err(): the Receiver is gone, break.
SWorkerSendErr(w) ==
    /\ s_wpc[w] = "send"
    /\ ~s_outOpen[w]
    /\ s_wpc' = [s_wpc EXCEPT ![w] = "exited"]
    /\ UNCHANGED notStateful
    /\ UNCHANGED <<s_init, s_mode, s_state>>
    /\ UNCHANGED <<s_src, s_N, s_panics, s_pos, s_nworkers, s_input_index,
                   s_num_processing, s_opc, s_caller, s_fillval, s_retval,
                   s_mailbox, s_inOpen, s_outOpen, s_witem, s_dropIdx, s_outputs,
                   s_calls, s_invoked, s_spawned, s_sent>>

\* ------------------------------------------------------------- interleave

\* A list iterator's next(): the element at position p, or None at the end.
ListAt(l, p) == IF p < Len(l) THEN Some(l[p + 1]) ELSE None

\* Mutant of IlNext: the iterator is fused, after its first None it returns
\* None without reading either input.
IlNext_fused ==
    /\ Len(pulled) < MaxPulls
    /\ IF \E i \in 1..Len(pulled) : pulled[i] = None
       THEN /\ pulled' = Append(pulled, None)
            /\ UNCHANGED <<lpos, rpos>>
       ELSE /\ pulled' = Append(pulled, IF next_left THEN ListAt(left, lpos)
                                                     ELSE ListAt(right, rpos))
            /\ lpos' = IF next_left /\ lpos < Len(left) THEN lpos + 1 ELSE lpos
            /\ rpos' = IF ~next_left /\ rpos < Len(right) THEN rpos + 1 ELSE rpos
    /\ next_left' = ~next_left
    /\ UNCHANGED <<left, right>>
    /\ UNCHANGED notInterleave

\* Mutant of IlNext: the turn is not flipped.
IlNext_no_flip ==
    /\ Len(pulled) < MaxPulls
    /\ pulled' = Append(pulled, IF next_left THEN ListAt(left, lpos)
                                             ELSE ListAt(right, rpos))
    /\ lpos' = IF next_left /\ lpos < Len(left) THEN lpos + 1 ELSE lpos
    /\ rpos' = IF ~next_left /\ rpos < Len(right) THEN rpos + 1 ELSE rpos
    /\ UNCHANGED <<left, right, next_left>>
    /\ UNCHANGED notInterleave

\* InterleaveIterator::next: pull from the side whose turn it is, flip the turn.
IlNext ==
    /\ Len(pulled) < MaxPulls
    /\ pulled' = Append(pulled, IF next_left THEN ListAt(left, lpos)
                                             ELSE ListAt(right, rpos))
    /\ lpos' = IF next_left /\ lpos < Len(left) THEN lpos + 1 ELSE lpos
    /\ rpos' = IF ~next_left /\ rpos < Len(right) THEN rpos + 1 ELSE rpos
    /\ next_left' = ~next_left
    /\ UNCHANGED <<left, right>>
    /\ UNCHANGED notInterleave

\* --------------------------------------------------------------- buffered

\* The inner iterator's next(): the poll-th answer of the source.
b_SourceAt(p) == IF p < Len(b_src) THEN b_src[p + 1] ELSE None

\* The caller calls next(), also after a call that panicked (catch_unwind);
\* next enters fill_buffer.
BCallNext ==
    /\ b_pc \in {"idle", "panicked"}
    /\ b_calls < BMaxCalls
    /\ b_calls' = b_calls + 1
    /\ b_fill0' = b_pos
    /\ b_pc' = "fill"
    /\ UNCHANGED <<b_src, b_cap, b_pos, b_buffer, b_out>>
    /\ UNCHANGED notBuffered

\* Mutant of BFillPush: no early return, the loop goes on after a None.
BFillPush_no_early_return ==
    /\ b_pc = "fill"
    /\ Len(b_buffer) < b_cap
    /\ b_buffer' = Append(b_buffer, b_SourceAt(b_pos))
    /\ b_pos' = b_pos + 1
    /\ b_pc' = "fill"
    /\ UNCHANGED <<b_src, b_cap, b_out, b_calls, b_fill0>>
    /\ UNCHANGED notBuffered

\* fill_buffer, one turn of the loop: the buffer is below capacity, the
\* source is polled and its answer pushed; a None pushed ends the fill.
BFillPush ==
    /\ b_pc = "fill"
    /\ Len(b_buffer) < b_cap
    /\ b_buffer' = Append(b_buffer, b_SourceAt(b_pos))
    /\ b_pos' = b_pos + 1
    /\ b_pc' = IF b_SourceAt(b_pos) = None THEN "pop" ELSE "fill"
    /\ UNCHANGED <<b_src, b_cap, b_out, b_calls, b_fill0>>
    /\ UNCHANGED notBuffered

\* fill_buffer: the loop test fails, the buffer is at capacity.
BFillDone ==
    /\ b_pc = "fill"
    /\ ~(Len(b_buffer) < b_cap)
    /\ b_pc' = "pop"
    /\ UNCHANGED <<b_src, b_cap, b_pos, b_buffer, b_out, b_calls, b_fill0>>
    /\ UNCHANGED notBuffered

\* next: self.buffer.pop_front().unwrap(): the front entry is returned;
\* pop_front of an empty buffer is None and unwrap panics.
BPop ==
    /\ b_pc = "pop"
    /\ IF b_buffer = <<>>
       THEN /\ b_pc' = "panicked"
            /\ UNCHANGED <<b_buffer, b_out>>
       ELSE /\ b_out' = Append(b_out, Head(b_buffer))
            /\ b_buffer' = Tail(b_buffer)
            /\ b_pc' = "idle"
    /\ UNCHANGED <<b_src, b_cap, b_pos, b_calls, b_fill0>>
    /\ UNCHANGED notBuffered

\* ------------------------------------------------------------------ specs

\* The caller of both variants makes the same call on each: the next call
\* starts on both once both have returned from the one before.
PairCallNext ==
    /\ opc = "idle"
    /\ s_opc = "idle"
    /\ calls < PairMaxCalls
    /\ calls' = calls + 1
    /\ caller' = "next"
    /\ opc' = "recv"
    /\ s_calls' = s_calls + 1
    /\ s_caller' = "next"
    /\ s_opc' = "recv"
    /\ UNCHANGED <<src, N, panics, pos, nworkers, input_index, num_processing,
                   fillval, retval, mailbox, inOpen, outOpen, wpc, witem, dropIdx,
                   outputs, invoked, spawned, sent>>
    /\ UNCHANGED <<s_src, s_N, s_panics, s_pos, s_nworkers, s_input_index,
                   s_num_processing, s_fillval, s_retval, s_mailbox, s_inOpen,
                   s_outOpen, s_wpc, s_witem, s_dropIdx, s_outputs, s_invoked,
                   s_spawned, s_sent, s_init, s_mode, s_state>>
    /\ UNCHANGED <<ivars, bvars>>

\* The steps of worker thread w, and of the orchestrator inside new, next and drop.
WorkerStep(w) == w \in Workers /\ (WorkerRecv(w) \/ WorkerCompute(w) \/ WorkerSendErr(w))

OrchStep == Spawn \/ NewStruct \/ FillPull \/ FillSend \/ FillDone \/ OrchRecv
               \/ DropInput \/ DropOutput

Next ==
    \/ Spawn
    \/ NewStruct
    \/ FillPull
    \/ FillSend
    \/ FillDone
    \/ CallNext
    \/ OrchRecv
    \/ DropStart
    \/ DropInput
    \/ DropOutput
    \/ \E w \in Workers : WorkerRecv(w)
    \/ \E w \in Workers : WorkerCompute(w)
    \/ \E w \in Workers : WorkerSendErr(w)

NextStateful ==
    \/ SSpawn
    \/ SNewStruct
    \/ SFillPull
    \/ SFillSend
    \/ SFillDone
    \/ SCallNext
    \/ SOrchRecv
    \/ SDropStart
    \/ SDropInput
    \/ SDropOutput
    \/ \E w \in s_Workers : SWorkerRecv(w)
    \/ \E w \in s_Workers : SWorkerCompute(w)
    \/ \E w \in s_Workers : SWorkerSendErr(w)

NextPair ==
    \/ Spawn
    \/ NewStruct
    \/ FillPull
    \/ FillSend
    \/ FillDone
    \/ OrchRecv
    \/ \E w \in Workers : WorkerRecv(w)
    \/ \E w \in Workers : WorkerCompute(w)
    \/ SSpawn
    \/ SNewStruct
    \/ SFillPull
    \/ SFillSend
    \/ SFillDone
    \/ SOrchRecv
    \/ \E w \in s_Workers : SWorkerRecv(w)
    \/ \E w \in s_Workers : SWorkerCompute(w)
    \/ PairCallNext

NextInterleave == IlNext

NextBuffered == BCallNext \/ BFillPush \/ BFillDone \/ BPop

\* The stateless parallel map: construction, next calls, drop, the workers.
Spec == Init /\ [][Next]_vars

\* The same under fair scheduling, on sources of at most FairMaxLen polls: the
\* operating system runs every thread that can take a step; the caller is
\* free to stop calling next and never to drop.
FairSpec ==
    /\ FairInit
    /\ [][Next]_vars
    /\ WF_vars(OrchStep)
    /\ \A w \in 0..(MaxN - 1) : WF_vars(WorkerStep(w))

\* Fair scheduling with a transformation whose calls all return.
FairTotalSpec ==
    /\ FairTotalInit
    /\ [][Next]_vars
    /\ WF_vars(OrchStep)
    /\ \A w \in 0..(MaxN - 1) : WF_vars(WorkerStep(w))

\* The stateful parallel map.
SpecStateful == InitStateful /\ [][NextStateful]_vars

\* The stateful parallel map of the running sum.
SpecStatefulSum == InitStatefulSum /\ [][NextStateful]_vars

\* Both variants, driven by the same source, pool size and next calls.
SpecPair == InitPair /\ [][NextPair]_vars

\* interleave on two lists.
SpecInterleave == InitInterleave /\ [][NextInterleave]_vars

\* buffered(capacity) on a source.
SpecBuffered == InitBuffered /\ [][NextBuffered]_vars

\* ----------------------------------------------------------------- claims

\* The number of polls before the source first answers None: its length as a
\* finite sequence.
FirstNone(s) ==
    IF \E i \in 1..Len(s) : s[i] = None
    THEN (CHOOSE i \in 1..Len(s) : s[i] = None /\ \A j \in 1..(i - 1) : s[j] # None) - 1
    ELSE Len(s)

\* A source that keeps answering None once it has answered None.
Fused(s) == FirstNone(s) = Len(s)

\* The values of a sequence of items.
Values(items) == [i \in 1..Len(items) |-> items[i].v]

\* The sequential map: what source.map(func).next() returns on its i-th call,
\* for i up to the first None.
SequentialMap(s, i) == IF i <= FirstNone(s) THEN Some(func(s[i][1])) ELSE None

\* C1: with a transformation that never aborts, the i-th value next returns,
\* up to and including the first None, is the i-th value of the sequential
\* map of the source: func of the i-th source element, in source order, and
\* None right after the last one; this for every pool size and interleaving.
C1_OrderedParallelMap ==
    panics = {} =>
        \A i \in 1..Len(outputs) :
            i <= FirstNone(src) + 1 =>
                /\ outputs[i].k = i - 1
                /\ outputs[i].v = SequentialMap(src, i)

\* C1 witness: pool of 2, source [1, 2, 2] drained: 1, 4, 4 and then None.
C1_Witness ==
    /\ panics = {}
    /\ N = 2
    /\ src = <<Some(1), Some(2), Some(2)>>
    /\ Values(outputs) = <<Some(1), Some(4), Some(4), None>>

\* C3: on an empty source every value next returns, the first one included,
\* is None, every item ever dispatched is None, and no worker has invoked
\* the transformation or holds a real value.
C3_EmptySource ==
    Len(src) = 0 =>
        /\ \A i \in 1..Len(outputs) : outputs[i].v = None
        /\ \A i \in 1..Len(sent) : sent[i].v = None
        /\ \A w \in Workers :
              /\ invoked[w] = <<>>
              /\ witem[w].v = None
              /\ \A i \in 1..Len(mailbox[w]) : mailbox[w][i].v = None

\* C3 witness: pool of 2, empty source, the first next call has returned None.
C3_Witness ==
    /\ Len(src) = 0
    /\ N = 2
    /\ Len(outputs) >= 1
    /\ outputs[1].v = None
    /\ opc = "idle"

\* next has returned None at least once.
GotNone == \E i \in 1..Len(outputs) : outputs[i].v = None

\* What C4 says of a state: after a dispatched None only None is dispatched,
\* after a returned None only None is returned, and no call fails.
AfterExhaustion ==
    /\ \A i, j \in 1..Len(sent) : (i < j /\ sent[i].v = None) => sent[j].v = None
    /\ \A i, j \in 1..Len(outputs) :
          (i < j /\ outputs[i].v = None) => outputs[j].v = None
    /\ GotNone => opc # "panicked"

\* C4 as stated, for every source: once the source has answered None, every
\* item dispatched afterwards is None, and after the first None returned
\* every further call returns None and none fails.
C4_Original == AfterExhaustion

\* C4 amended: for a source that keeps answering None once exhausted, once it
\* has answered None every item dispatched afterwards is None, after the
\* first None returned every further call returns None and none fails, and
\* under fair scheduling every such call returns.
C4_FusedExhaustion ==
    /\ [](Fused(src) => AfterExhaustion)
    /\ (Fused(src) /\ GotNone /\ opc = "recv") ~> (opc = "idle")

\* C4 witness: a fused source of 1 element, pool of 2: the value, then None
\* on each of three further calls.
C4_Witness ==
    /\ Fused(src)
    /\ Len(src) = 1
    /\ N = 2
    /\ opc = "idle"
    /\ Len(outputs) = 4
    /\ \A i \in 2..4 : outputs[i].v = None

\* C5: once the transformation has aborted in worker w, on the item of poll k:
\* w stays dead and no thread is spawned or worker slot changed; the
\* orchestrator's next send to or receive from w ends in a panic of the call,
\* which returns nothing; and no result of poll k or of a later poll is ever
\* among the values returned.
C5_WorkerPanicIsFatal ==
    [][\A w \in Workers :
          wpc[w] = "dead" =>
              /\ wpc'[w] = "dead"
              /\ spawned' = spawned
              /\ nworkers' = nworkers
              /\ \A i \in 1..Len(outputs') : outputs'[i].k < witem[w].k
              /\ (opc = "recv" /\ output_index = w /\ opc' # opc) =>
                     (opc' = "panicked" /\ outputs' = outputs)
              /\ (opc = "send" /\ input_index = w /\ opc' # opc) =>
                     (opc' = "panicked" /\ outputs' = outputs)]_vars

\* C5 witness: the second item aborted its worker; the first call returned
\* its value and the second call panicked.
C5_Witness ==
    /\ N = 2
    /\ wpc[1] = "dead"
    /\ witem[1].k = 1
    /\ opc = "panicked"
    /\ calls = 2
    /\ Len(outputs) = 1

\* C6: drop closes every worker's mailbox and result channel, its steps never
\* wait for a worker, and under fair scheduling every worker thread has ended
\* some time after the drop: none stays blocked on recv or send.
C6_DropEndsWorkers ==
    /\ [](opc = "dropped" => \A w \in Workers : ~inOpen[w] /\ ~outOpen[w])
    /\ [](opc \in {"drop_input", "drop_output"} => ENABLED (DropInput \/ DropOutput))
    /\ (opc = "dropped") ~> (\A w \in Workers : wpc[w] \in Gone)

\* C6 witness: the iterator was dropped while one worker was blocked handing
\* off a result and the other had not yet taken its item from the mailbox.
C6_Witness ==
    /\ N = 2
    /\ opc = "dropped"
    /\ wpc[0] = "send"
    /\ wpc[1] = "recv"
    /\ mailbox[1] # <<>>

\* The items worker w holds: in its mailbox, being computed, or waiting for
\* hand-off.
Held(w) == Len(mailbox[w]) + (IF wpc[w] \in {"compute", "send"} THEN 1 ELSE 0)

\* Polled from the source and not yet returned by next.
Outstanding == pos - Len(outputs)

\* C7 as stated: every worker holds at most one item, and the number of items
\* polled from the source and not yet returned never exceeds N.
C7_Original ==
    /\ \A w \in Workers : Held(w) <= 1
    /\ Outstanding <= N

\* C7 amended: every worker holds at most one item and at most N are
\* dispatched and not retrieved; the number polled and not yet returned
\* never exceeds N + 1, and never exceeds N while no next call is running.
C7_BoundedInFlight ==
    /\ \A w \in Workers : Held(w) <= 1
    /\ num_processing <= N
    /\ Outstanding <= N + 1
    /\ opc \in {"new", "idle", "panicked", "recv"} => Outstanding <= N

\* C7 witness: inside next, after the retrieval and the poll of the refill,
\* N + 1 items are polled and not yet returned.
C7_Witness ==
    /\ N = 2
    /\ opc = "send"
    /\ caller = "next"
    /\ Outstanding = N + 1
    /\ \A w \in Workers : Held(w) <= 1

\* C8: once construction is past spawning, exactly N workers exist and
\* exactly N threads were spawned, in every later state: through next calls,
\* exhaustion, worker panics and drop.
C8_FixedPool ==
    opc # "new" =>
        /\ nworkers = N
        /\ spawned = N
        /\ \A w \in Workers : wpc[w] # "unborn"

\* C8 witness: a worker has died, the call has panicked, and the pool is
\* still the N workers spawned by new.
C8_Witness ==
    /\ N = 2
    /\ opc = "panicked"
    /\ \E w \in Workers : wpc[w] = "dead"
    /\ nworkers = 2
    /\ spawned = 2

RECURSIVE StateBefore(_)
\* The state of worker k mod N when the item of poll k reaches it: its clone of
\* the initial state after the items of polls k mod N, k mod N + N, ...,
\* k - N, in that order (an end-marker leaves the state alone).
StateBefore(k) ==
    IF k < s_N
    THEN s_init
    ELSE IF s_SourceAt(k - s_N) = None
         THEN StateBefore(k - s_N)
         ELSE stateful_func(s_mode, StateBefore(k - s_N), s_SourceAt(k - s_N)[1]).state

\* What the item of poll k must come back as.
ExpectedStateful(k) ==
    IF s_SourceAt(k) = None
    THEN None
    ELSE Some(stateful_func(s_mode, StateBefore(k), s_SourceAt(k)[1]).out)

\* C2: in the stateful variant the item of poll k goes to worker k mod N and
\* is processed there, and the k-th value next returns is the transformation
\* applied to it with the state that worker's own clone of the initial state
\* has after the earlier items of that worker alone.
C2_StateIsolation ==
    /\ \A j \in 1..Len(s_sent) :
          s_sent[j].k = j - 1 /\ s_sent[j].w = (j - 1) % s_N
    /\ \A w \in s_Workers :
          \A i \in 1..Len(s_invoked[w]) :
              /\ s_invoked[w][i] % s_N = w
              /\ i > 1 => s_invoked[w][i - 1] < s_invoked[w][i]
    /\ \A i \in 1..Len(s_outputs) :
          /\ s_outputs[i].k = i - 1
          /\ s_outputs[i].w = (i - 1) % s_N
          /\ s_outputs[i].v = ExpectedStateful(i - 1)

\* C2 witness: pool of 2, running sum from 0, source [1, 2, 3, 4]: 1, 2, 4, 6.
C2_Witness ==
    /\ s_N = 2
    /\ s_mode = "cumsum"
    /\ s_init = 0
    /\ s_src = ExampleSource
    /\ Values(s_outputs) = <<Some(1), Some(2), Some(4), Some(6)>>

\* The shorter of two lengths.
MinLen(a, b) == IF Len(a) <= Len(b) THEN Len(a) ELSE Len(b)

\* Both orchestrators are at the same step of the same call.
SamePoint == opc = s_opc /\ calls = s_calls /\ Len(sent) = Len(s_sent)

\* C9: driven by the same source, pool size and next calls, the two variants
\* agree step by step: at the same step of the same call their input_index,
\* num_processing and source position are equal, the i-th dispatch goes to
\* the same worker with the same item, the i-th retrieval comes from the same
\* worker, and with a stateful transformation that leaves its state alone and
\* computes func(x) the i-th value returned is the same.
C9_SameScheduling ==
    /\ SamePoint =>
          /\ input_index = s_input_index
          /\ num_processing = s_num_processing
          /\ pos = s_pos
          /\ opc # "new" => (nworkers = s_nworkers /\ output_index = s_output_index)
    /\ \A i \in 1..MinLen(sent, s_sent) : sent[i] = s_sent[i]
    /\ \A i \in 1..MinLen(outputs, s_outputs) :
          /\ outputs[i].k = s_outputs[i].k
          /\ outputs[i].w = s_outputs[i].w
          /\ s_mode = "pure" => outputs[i].v = s_outputs[i].v

\* C9 witness: pool of 2, source of 2 elements, three calls returned by both
\* variants with the same values.
C9_Witness ==
    /\ N = 2
    /\ s_mode = "pure"
    /\ Len(src) = 2
    /\ opc = "idle"
    /\ s_opc = "idle"
    /\ Len(outputs) = 3
    /\ outputs = s_outputs

\* What collect() gathers from interleave: the values pulled before the first
\* None.
Collected == SubSeq(pulled, 1, FirstNone(pulled))

\* The number of elements the claim gives for it.
CollectedLen ==
    IF Len(left) <= Len(right) THEN 2 * Len(left) ELSE 2 * Len(right) + 1

\* C10: the values interleave yields before its first None are left[1],
\* right[1], left[2], right[2], ...: left first, strictly alternating; the
\* first None comes at the first pull whose turn falls on an exhausted input,
\* after 2*|left| values when |left| <= |right| and 2*|right| + 1 otherwise.
C10_Interleave ==
    /\ \A i \in 1..Len(Collected) :
          Collected[i] = IF i % 2 = 1 THEN Some(left[(i + 1) \div 2])
                                      ELSE Some(right[i \div 2])
    /\ Len(Collected) <= CollectedLen
    /\ FirstNone(pulled) < Len(pulled) => Len(Collected) = CollectedLen

\* C10 witness: [1,2,3,4,5] with [6,7,8] has yielded 1,6,2,7,3,8,4 and None.
C10_Witness ==
    /\ left = <<1, 2, 3, 4, 5>>
    /\ right = <<6, 7, 8>>
    /\ pulled = <<Some(1), Some(6), Some(2), Some(7), Some(3), Some(8), Some(4), None>>

\* C11: for every finite source and every capacity, no next call of the
\* buffered iterator panics, and the i-th value next returns is the i-th
\* answer of the source: its elements in order, then None.
C11_BufferedIsTransparent ==
    /\ b_pc # "panicked"
    /\ Fused(b_src) => \A i \in 1..Len(b_out) : b_out[i] = b_SourceAt(i - 1)

\* C12: whenever fill_buffer is about to send an item to the worker at
\* input_index, in new and in every next, that worker's mailbox is empty: the
\* send never blocks on a full mailbox.
C12_DispatchNeverBlocks ==
    opc = "send" => mailbox[input_index] = <<>>

\* C12 witness: pool of 2, the refill of the third next call is about to
\* send to a worker whose mailbox is empty while the other worker's is full.
C12_Witness ==
    /\ N = 2
    /\ opc = "send"
    /\ caller = "next"
    /\ calls = 3
    /\ mailbox[input_index] = <<>>
    /\ mailbox[1 - input_index] # <<>>

\* The orchestrator's struct exists: new has built it and drop has not begun.
Built == opc \in {"fill", "send", "idle", "recv", "panicked"}

\* The oldest item dispatched and not yet retrieved.
Oldest == sent[Len(sent) - num_processing + 1]

\* Worker w holds the item of poll k: in its mailbox, being computed, waiting
\* for hand-off, or (a worker whose transformation aborted) the item it
\* died on.
Holds(w, k) ==
    \/ mailbox[w] # <<>> /\ mailbox[w][1].k = k
    \/ wpc[w] \in {"compute", "send", "dead"} /\ witem[w].k = k

C14_FillSaturates ==
    /\ opc = "idle" => (num_processing = N /\ Len(sent) = N + Len(outputs))
    /\ opc = "recv" => (num_processing = N /\ output_index = input_index)
    /\ (opc = "send" /\ caller = "next") =>
          /\ num_processing = N - 1
          /\ input_index = retval.w
          /\ Len(sent) = N + Len(outputs)

\* C14 witness: pool of 2, the source already exhausted: the refill of a next
\* call is about to go to worker 1, whose result was just retrieved.
C14_Witness ==
    /\ N = 2
    /\ opc = "send"
    /\ caller = "next"
    /\ fillval.k > Len(src)
    /\ input_index = 1
    /\ retval.w = 1
    /\ num_processing = 1

\* The number of real values among a sequence of items.
Reals(items) == Cardinality({j \in 1..Len(items) : items[j].v # None})

\* The number of real values the source has answered so far.
PolledReals == Cardinality({p \in 0..(pos - 1) : SourceAt(p) # None})

\* A real value polled by fill_buffer and about to be sent.
Pending == IF opc = "send" /\ fillval.v # None THEN 1 ELSE 0

\* The end-markers dispatched by fill call c (0: the one in new).
MarkersIn(c) == Cardinality({j \in 1..Len(sent) : sent[j].c = c /\ sent[j].v = None})

\* Every poll's answer is dispatched once, in poll order, and the real values
\* dispatched (with the one about to be sent) are the real values polled.
EachPolledOnce ==
    /\ \A j \in 1..Len(sent) : sent[j].k = j - 1 /\ sent[j].v = SourceAt(j - 1)
    /\ Reals(sent) + Pending = PolledReals

\* C15 as stated: the real values dispatched are the real values polled, each
\* dispatched once, and every fill call, the one in new included, dispatches
\* at most one end-marker.
C15_Original ==
    /\ EachPolledOnce
    /\ \A c \in 0..calls : MarkersIn(c) <= 1

\* C15 amended: the real values dispatched (with the one polled and about to
\* be sent) are the real values polled, each dispatched once; the fill call
\* of every next dispatches at most one end-marker, and the fill call of
\* new dispatches one for each of its N polls the source answers with None,
\* up to N of them.
C15_DispatchCount ==
    /\ EachPolledOnce
    /\ \A c \in 1..calls : MarkersIn(c) <= 1
    /\ MarkersIn(0) <= N
    /\ opc \in {"idle", "recv", "panicked"} =>
          MarkersIn(0) = Cardinality({p \in 0..(N - 1) : SourceAt(p) = None})

\* C15 witness: source [1], pool of 2: new has dispatched the 1 and one
\* end-marker, each of two next calls one more end-marker.
C15_Witness ==
    /\ N = 2
    /\ src = <<Some(1)>>
    /\ opc = "idle"
    /\ calls = 2
    /\ Reals(sent) = 1
    /\ MarkersIn(0) = 1
    /\ MarkersIn(1) = 1
    /\ MarkersIn(2) = 1

\* The items dispatched to worker w, in order.
s_DispatchedTo(w) == SelectSeq(s_sent, LAMBDA it : it.w = w)

\* The results next has retrieved, the one not yet returned included.
s_Retrieved ==
    IF s_caller = "next" /\ s_opc \in {"fill", "send"}
    THEN Append(s_outputs, s_retval)
    ELSE s_outputs

\* The results retrieved from worker w, in order.
s_RetrievedFrom(w) == SelectSeq(s_Retrieved, LAMBDA it : it.w = w)

\* The number of its items worker w is done computing.
s_Processed(w) ==
    Len(s_DispatchedTo(w)) - Len(s_mailbox[w]) - (IF s_wpc[w] = "compute" THEN 1 ELSE 0)

RECURSIVE s_StateAfter(_, _)
\* The state of a worker that started from the initial state and was handed
\* the first n of the items d: the transformation applied to the real values
\* among them, in order.
s_StateAfter(d, n) ==
    IF n = 0
    THEN s_init
    ELSE IF d[n].v = None
         THEN s_StateAfter(d, n - 1)
         ELSE stateful_func(s_mode, s_StateAfter(d, n - 1), d[n].v[1]).state

\* The polls of the real values among the first n of the items d.
s_RealPolls(d, n) ==
    LET reals == SelectSeq(SubSeq(d, 1, n), LAMBDA it : it.v # None)
    IN  [i \in 1..Len(reals) |-> reals[i].k]

\* C16: each worker is an in-order one-item pipeline: the i-th result
\* retrieved from it is the result of the i-th item dispatched to it, and it
\* never runs more than one result ahead of the retrievals; the result of a
\* real value x is the transformation applied to x and the worker's state,
\* the result of an end-marker is an end-marker; the transformation is
\* invoked on the real values only, and the worker's state is what the real
\* values alone made it: an end-marker leaves it unchanged.
C16_WorkerPipeline ==
    \A w \in s_Workers :
        LET d == s_DispatchedTo(w)
            r == s_RetrievedFrom(w)
        IN  /\ Len(r) <= s_Processed(w)
            /\ s_Processed(w) <= Len(r) + 1
            /\ \A i \in 1..Len(r) :
                  /\ r[i].k = d[i].k
                  /\ r[i].v = IF d[i].v = None
                              THEN None
                              ELSE Some(stateful_func(s_mode, s_StateAfter(d, i - 1),
                                                      d[i].v[1]).out)
            /\ s_invoked[w] = s_RealPolls(d, s_Processed(w))
            /\ s_wpc[w] \notin {"dead", "unborn"} =>
                  s_state[w] = s_StateAfter(d, s_Processed(w))

\* C16 witness: one worker summing from 0 is handed 1, an end-marker and 2:
\* it hands back 1, an end-marker and 3, having invoked the transformation
\* on the first and the third item only.
C16_Witness ==
    /\ s_N = 1
    /\ s_mode = "cumsum"
    /\ s_init = 0
    /\ s_panics = {}
    /\ s_src = <<Some(1), None, Some(2)>>
    /\ Values(s_outputs) = <<Some(1), None, Some(3)>>
    /\ s_invoked[0] = <<0, 2>>

\* The real value of poll k sits in worker w's mailbox.
InMailbox(w, k) ==
    /\ w \in Workers
    /\ mailbox[w] # <<>>
    /\ mailbox[w][1].k = k
    /\ mailbox[w][1].v # None

\* Worker w has invoked the transformation on the item of poll k.
InvokedOn(w, k) == w \in Workers /\ \E i \in 1..Len(invoked[w]) : invoked[w][i] = k

\* A real value was dispatched to worker w and w has not yet invoked the
\* transformation on it.
Undone(w) ==
    /\ w \in Workers
    /\ \E j \in 1..Len(sent) :
          sent[j].w = w /\ sent[j].v # None /\ ~InvokedOn(w, sent[j].k)

\* C17: under fair scheduling every real value dispatched to a worker is
\* eventually handed to the transformation by that worker, also when the
\* iterator is dropped while the value is still in the mailbox: time and
\* again no worker has a dispatched real value left that it has not invoked
\* the transformation on (invocations are never undone, so each value that
\* was waiting has then been invoked).
C17_NeverCancelled ==
    \A w \in 0..(MaxN - 1) : []<>(~Undone(w))

\* C17 witness: the iterator was dropped while a real value was still in
\* worker 1's mailbox, the worker not having invoked anything yet.
C17_Witness ==
    /\ N = 2
    /\ opc = "dropped"
    /\ InMailbox(1, 1)
    /\ ~inOpen[1]
    /\ invoked[1] = <<>>

\* Worker w has an item to work on or a result to hand off: it is not
\* waiting for input.
Busy(w) == mailbox[w] # <<>> \/ wpc[w] \in {"compute", "send"}

\* C18: with a transformation whose calls all return, new returns and every
\* next call returns under fair scheduling, and in no state does the
\* orchestrator wait for the result of a worker that itself waits for input.
C18_DeadlockFree ==
    /\ [](panics = {} /\ opc = "recv" => Busy(output_index))
    /\ (panics = {} /\ opc = "new") ~> (opc = "idle")
    /\ (panics = {} /\ opc = "recv") ~> (opc = "idle")

\* C18 witness: pool of 2 on the endless source, the second next waits for
\* the result of a worker that has not yet taken its item out of its mailbox.
C18_Witness ==
    /\ N = 2
    /\ panics = {}
    /\ src = EndlessSource
    /\ opc = "recv"
    /\ calls = 2
    /\ wpc[output_index] = "recv"
    /\ mailbox[output_index] # <<>>

\* The transformation aborts on the answer of poll p.
Aborts(p) == SourceAt(p) # None /\ SourceAt(p)[1] \in panics

\* Some source item makes the transformation abort.
HasAbort == \E p \in 0..(Len(src) - 1) : Aborts(p)

\* The first such item, in source order.
FirstAbort ==
    CHOOSE p \in 0..(Len(src) - 1) : Aborts(p) /\ \A q \in 0..(p - 1) : ~Aborts(q)

\* What the answer of poll p comes back as.
MapAt(p) == IF SourceAt(p) = None THEN None ELSE Some(func(SourceAt(p)[1]))

\* What C19 says of a state when the transformation first aborts on item k.
SurfacesAt(k) ==
    /\ Len(outputs) <= k
    /\ \A i \in 1..Len(outputs) : outputs[i].k = i - 1 /\ outputs[i].v = MapAt(i - 1)
    /\ calls <= k => opc # "panicked"
    /\ calls >= k + 1 => opc \notin {"fill", "send", "idle"}
    /\ opc = "panicked" => (wpc[k % N] = "dead" /\ witem[k % N].k = k)
    /\ (opc = "recv" /\ calls >= k + 1 /\ wpc[k % N] = "dead") =>
          (output_index = k % N /\ ENABLED OrchRecv)

\* C19: when the transformation aborts on source item k (the first such):
\* no send of the orchestrator ever fails; the next calls for items 0..k-1
\* return their results, in order, and no later result is ever returned; a
\* call panics only at its retrieval, in the (k+1)-th call (and in calls
\* repeated after it), from the worker that died on item k, and does so as
\* soon as that worker has died; with at most k calls made nothing fails.
C19_PanicSurfacesAtRetrieval ==
    /\ [](HasAbort => SurfacesAt(FirstAbort))
    /\ [][opc = "send" => opc' # "panicked"]_vars
    /\ [][(opc' = "panicked" /\ opc # "panicked") =>
              (opc = "recv" /\ HasAbort /\ calls >= FirstAbort + 1)]_vars

\* C19 witness: pool of 2, source [1, 1, 2], the transformation aborts on 2:
\* two calls returned 1 and 1, the third panicked, worker 0 having died.
C19_Witness ==
    /\ N = 2
    /\ panics = {2}
    /\ src = <<Some(1), Some(1), Some(2)>>
    /\ opc = "panicked"
    /\ calls = 3
    /\ Values(outputs) = <<Some(1), Some(1)>>
    /\ wpc[0] = "dead"

\* C20: new polls the source exactly N times before any next is called, and
\* each next that returns polls it exactly once more: after m returned calls
\* the source has been polled N + m times, polls after a None included;
\* whatever the source answers is dispatched, so with a transformation that
\* never aborts the i-th value returned is the mapped i-th answer, a value
\* answered after a None included.
C20_EagerPolling ==
    /\ caller = "new" => pos <= N
    /\ opc \in {"idle", "recv", "panicked"} => pos = N + Len(outputs)
    /\ (opc \in {"fill", "send"} /\ caller = "next") =>
          (pos >= N + Len(outputs) /\ pos <= N + Len(outputs) + 1)
    /\ \A j \in 1..Len(sent) : sent[j].v = SourceAt(j - 1)
    /\ panics = {} => \A i \in 1..Len(outputs) : outputs[i].v = MapAt(i - 1)

\* C20 witness: pool of 1, a source answering None and then 1: two calls have
\* returned None and then 1, and the source was polled 3 times.
C20_Witness ==
    /\ N = 1
    /\ panics = {}
    /\ src = <<None, Some(1)>>
    /\ opc = "idle"
    /\ Values(outputs) = <<None, Some(1)>>
    /\ pos = 3

\* C21: the buffer of a BufferedIterator of capacity c never holds more than
\* c entries, and they are the source's answers polled and not yet returned,
\* so the source elements read and not yet returned never exceed c; of the
\* polls one fill_buffer makes only the last can be answered None: the
\* source is not polled again in that fill after a None.
C21_BoundedReadAhead ==
    /\ Len(b_buffer) <= b_cap
    /\ b_pos - Len(b_out) = Len(b_buffer)
    /\ \A i \in 1..Len(b_buffer) : b_buffer[i] = b_SourceAt(Len(b_out) + i - 1)
    /\ b_fill0 <= b_pos
    /\ \A p \in b_fill0..(b_pos - 2) : b_SourceAt(p) # None

\* C21 witness: capacity 3 on the source [1]: the first fill has read 1 and
\* a None and stopped there, one entry short of the capacity.
C21_Witness ==
    /\ b_cap = 3
    /\ b_src = <<Some(1)>>
    /\ b_pc = "pop"
    /\ b_calls = 1
    /\ b_buffer = <<Some(1), None>>

\* C22: InterleaveIterator flips its turn on every pull, a pull that returns
\* None included, and keeps no record of having ended: the i-th pull reads
\* the left input when i is odd and the right one when i is even, whatever
\* was returned before, so after a None a later pull can return an element
\* of the other input; left [1,2,3] with right [6,7,8,9,10] returns None,
\* 9, None, 10 on pulls 7 to 10.
C22_InterleaveNotFused ==
    /\ next_left = (Len(pulled) % 2 = 0)
    /\ \A i \in 1..Len(pulled) :
          pulled[i] = IF i % 2 = 1 THEN ListAt(left, (i - 1) \div 2)
                                   ELSE ListAt(right, (i \div 2) - 1)
    /\ (left = <<1, 2, 3>> /\ right = <<6, 7, 8, 9, 10>> /\ Len(pulled) >= 10) =>
          SubSeq(pulled, 7, 10) = <<None, Some(9), None, Some(10)>>

\* C22 witness: left [1,2,3], right [6,7,8,9,10], ten pulls made: 1, 6, 2, 7,
\* 3, 8, None, 9, None, 10.
C22_Witness ==
    /\ left = <<1, 2, 3>>
    /\ right = <<6, 7, 8, 9, 10>>
    /\ pulled = <<Some(1), Some(6), Some(2), Some(7), Some(3), Some(8),
                  None, Some(9), None, Some(10)>>
    /\ next_left

====
